---- MODULE Spec2Model ----
(***************************************************************************)
(* Model of the retrieval core of the AKAR RAG backend:                    *)
(*   app/services/index.py   chunking, index build / load / cache, search  *)
(*   app/routers/ingest.py   the rebuild endpoint                          *)
(*   app/routers/chat.py     the query endpoint                            *)
(*                                                                         *)
(* Texts are sequences of one-character strings.  Positions keep Python's  *)
(* 0-based convention: position i of a text t is t[i + 1].                 *)
(***************************************************************************)
EXTENDS Integers, Sequences, FiniteSets, TLC

(***************************************************************************)
(* Bounds of the model.                                                    *)
(***************************************************************************)
MaxLen == 5
MaxChunk == 4
MaxBuilds == 2
MaxHits == 4
MaxAnswer == 2
MaxTime == 4

Min(a, b) == IF a <= b THEN a ELSE b
Max(a, b) == IF a >= b THEN a ELSE b
SetMax(S) == CHOOSE x \in S : \A y \in S : y <= x

(***************************************************************************)
(* Characters.  str.strip() removes leading and trailing whitespace; the   *)
(* chunker snaps to "\n" first and to " " second.                          *)
(***************************************************************************)
NL == "\n"
SP == " "
Whitespace == {NL, SP}
Alphabet == {"a", SP, NL}

RECURSIVE TextsOfLen(_)
TextsOfLen(n) ==
    IF n = 0 THEN {<<>>}
    ELSE {Append(t, c) : t \in TextsOfLen(n - 1), c \in Alphabet}

Texts == UNION {TextsOfLen(n) : n \in 0..MaxLen}

\* text[a:b] for 0 <= a <= b <= len(text)
Slice(text, a, b) == SubSeq(text, a + 1, b)

\* text.rfind(ch, lo, hi): the highest position in [lo, hi) holding ch, or -1
RFind(text, ch, lo, hi) ==
    LET hits == {i \in lo..(Min(hi, Len(text)) - 1) : text[i + 1] = ch}
    IN  IF hits = {} THEN -1 ELSE SetMax(hits)

\* str.strip()
Strip(s) ==
    LET keep == {i \in 1..Len(s) : s[i] \notin Whitespace}
    IN  IF keep = {} THEN <<>>
        ELSE SubSeq(s, CHOOSE i \in keep : \A j \in keep : i <= j, SetMax(keep))

IsBlank(s) == Strip(s) = <<>>

(***************************************************************************)
(* _chunk_text, one loop iteration at a time.                              *)
(***************************************************************************)
\* lines 70-79: the end of the window that starts at `start`
WindowEnd(text, start, cs, ov) ==
    LET raw  == Min(start + cs, Len(text))
        nl   == RFind(text, NL, start + ov, raw)
        snap == IF nl <= start THEN RFind(text, SP, start + ov, raw) ELSE nl
    IN  IF raw < Len(text) /\ snap > start THEN snap ELSE raw

\* lines 85-87 with the forced advance left out
NextStartNoForce(start, end, cs, ov) == end - ov

\* lines 85-87: the next cursor
NextStart(start, end, cs, ov) ==
    IF end - ov <= start THEN start + Max(1, cs - ov) ELSE end - ov

\* lines 61-90 as a function of the text
RECURSIVE ChunkFrom(_, _, _, _)
ChunkFrom(text, start, cs, ov) ==
    IF start >= Len(text) THEN <<>>
    ELSE LET end   == WindowEnd(text, start, cs, ov)
             chunk == Strip(Slice(text, start, end))
             rest  == ChunkFrom(text, NextStart(start, end, cs, ov), cs, ov)
         IN  IF chunk # <<>> THEN <<chunk>> \o rest ELSE rest

ChunkText(text, cs, ov) == IF text = <<>> THEN <<>> ELSE ChunkFrom(text, 0, cs, ov)

(***************************************************************************)
(* Configuration (index.py 24-25, 132; rag.py 19).  The environment sets   *)
(* CHUNK_SIZE and CHUNK_OVERLAP; the defaults 600 / 100 are scaled down    *)
(* here, keeping CHUNK_SIZE > 2 * CHUNK_OVERLAP as the defaults do.        *)
(***************************************************************************)
CHUNK_SIZE == 4
CHUNK_OVERLAP == 1
BATCH_SIZE == 2
TOP_K == 2

\* a module-level singleton: None, or the object it holds
None == [some |-> FALSE, data |-> <<>>]
Some(d) == [some |-> TRUE, data |-> d]

\* an artifact under storage/: absent, unreadable, or holding a list
NoFile == [st |-> "absent", data |-> <<>>]
Corrupt == [st |-> "corrupt", data |-> <<>>]
FileOf(d) == [st |-> "ok", data |-> d]

(***************************************************************************)
(* What parse_pdf_sections can hand to ingest: no section, a header with   *)
(* no body, and short sections (non-blank, shorter than CHUNK_SIZE).       *)
(***************************************************************************)
Sec(u, t) == [url |-> u, full_text |-> t]

Corpora ==
    { <<>>,
      <<Sec("A", <<>>)>>,
      <<Sec("A", <<"a">>)>>,
      <<Sec("A", <<"a">>), Sec("B", <<"a">>)>>,
      <<Sec("A", <<"a", "a">>), Sec("B", <<"a">>)>> }

\* lines 115-123: the metadata entries of one section's chunks
RECURSIVE SectionMetadata(_, _, _, _)
SectionMetadata(section, cks, idx, gen) ==
    IF idx >= Len(cks) THEN <<>>
    ELSE <<[build |-> gen, url |-> section.url, chunk_index |-> idx,
            text |-> cks[idx + 1]]>>
         \o SectionMetadata(section, cks, idx + 1, gen)

\* lines 112-123: all_metadata over the sections, in order
RECURSIVE AllMetadata(_, _)
AllMetadata(sections, gen) ==
    IF sections = <<>> THEN <<>>
    ELSE SectionMetadata(Head(sections),
                         ChunkText(Head(sections).full_text, CHUNK_SIZE, CHUNK_OVERLAP),
                         0, gen)
         \o AllMetadata(Tail(sections), gen)

\* the batch that drops its last text
BatchShort(all, batch_start) ==
    SubSeq(all, batch_start + 1, Min(batch_start + BATCH_SIZE, Len(all)) - 1)

\* line 134: all_chunks[batch_start : batch_start + BATCH_SIZE]
Batch(all, batch_start) ==
    SubSeq(all, batch_start + 1, Min(batch_start + BATCH_SIZE, Len(all)))

\* line 116: all_chunks, the texts of all_metadata
AllChunks(all_metadata) == [i \in 1..Len(all_metadata) |-> all_metadata[i].text]

\* lines 95-98: one vector per input text, order preserved.  A vector is
\* named by the text it embeds and the build that asked for it.
EmbedTexts(texts, gen) == [i \in 1..Len(texts) |-> [build |-> gen, emb |-> texts[i]]]

\* vector v is the embedding of the chunk that metadata entry m describes
Pairs(v, m) == v.build = m.build /\ v.emb = m.text

\* the chunks a rebuild over `sections` produces
TotalChunks(sections) == Len(AllMetadata(sections, 0))

(***************************************************************************)
(* rag.py: confidence scoring.  A retrieval result is a list of hits, each *)
(* the metadata of a chunk and its score; scores are in hundredths (0.70   *)
(* is 70).  An answer is a list of phrases; `NOT_FOUND_PHRASE in answer`   *)
(* is the phrase being one of them.                                        *)
(***************************************************************************)
HIGH_THRESHOLD == 70
MEDIUM_THRESHOLD == 45
NOT_FOUND_PHRASE == "I couldn't find this information in the website knowledge base."

Hit(u, t, x, s) == [url |-> u, section_title |-> t, text |-> x, score |-> s]

\* rag.py 62: NOT_FOUND_PHRASE in answer
HasNotFound(answer) == \E i \in DOMAIN answer : answer[i] = NOT_FOUND_PHRASE

\* rag.py 61-69 without the sentinel test of line 62
ConfidenceLevelNoSentinel(retrieved, answer) ==
    IF retrieved = <<>> THEN "low"
    ELSE IF retrieved[1].score >= HIGH_THRESHOLD /\ Len(retrieved) >= 2 THEN "high"
    ELSE IF retrieved[1].score >= MEDIUM_THRESHOLD THEN "medium"
    ELSE "low"

\* rag.py 61-69 without the hit count of line 65
ConfidenceLevelAnyCount(retrieved, answer) ==
    IF HasNotFound(answer) \/ retrieved = <<>> THEN "low"
    ELSE IF retrieved[1].score >= HIGH_THRESHOLD THEN "high"
    ELSE IF retrieved[1].score >= MEDIUM_THRESHOLD THEN "medium"
    ELSE "low"

\* rag.py 61-69: _confidence_level
ConfidenceLevel(retrieved, answer) ==
    IF HasNotFound(answer) \/ retrieved = <<>> THEN "low"
    ELSE LET top_score == retrieved[1].score
         IN  IF top_score >= HIGH_THRESHOLD /\ Len(retrieved) >= 2 THEN "high"
             ELSE IF top_score >= MEDIUM_THRESHOLD THEN "medium"
             ELSE "low"

\* the inputs of the scorer: scores around both thresholds, descending as
\* index.search returns them; answers with and without the sentinel
Scores == {-5, MEDIUM_THRESHOLD - 1, MEDIUM_THRESHOLD, HIGH_THRESHOLD - 1,
           HIGH_THRESHOLD, 95}

SeqsUpTo(S, n) == UNION {[1..k -> S] : k \in 0..n}

ScoredResults ==
    {[i \in DOMAIN sc |-> Hit("A", "T1", <<"a">>, sc[i])] :
        sc \in {x \in SeqsUpTo(Scores, MaxHits) :
                   \A i \in DOMAIN x : i > 1 => x[i - 1] >= x[i]}}

Answers == SeqsUpTo({"ok", NOT_FOUND_PHRASE}, MaxAnswer)

(***************************************************************************)
(* rag.py: the source list.  The snippet length is scaled down with the    *)
(* texts; "..." stands for the one character U+2026.                       *)
(***************************************************************************)
MAX_SOURCES == 3
SNIPPET_LENGTH == 2
Ellipsis == "..."

\* rag.py 80-82: the snippet of a chunk text
Snippet(chunk) ==
    LET cut == Strip(Slice(chunk, 0, Min(SNIPPET_LENGTH, Len(chunk))))
    IN  IF Len(chunk) > SNIPPET_LENGTH THEN cut \o <<SP, Ellipsis>> ELSE cut

\* rag.py 83-87: the entry of a hit
SourceOf(hit) ==
    [url |-> hit.url, section_title |-> hit.section_title,
     snippet |-> Snippet(hit.text)]

\* the inputs of the source list: hits that share and do not share URLs,
\* with two titles and a short and a long text, scores falling with the rank
Urls == {"A", "B", "C", "D"}
Bodies == {[section_title |-> "T1", text |-> <<"a">>],
           [section_title |-> "T2", text |-> <<"a", SP, "a">>]}

RankedResults ==
    {[i \in DOMAIN h |-> Hit(h[i][1], h[i][2].section_title, h[i][2].text, 95 - i)] :
        h \in SeqsUpTo(Urls \X Bodies, MaxHits)}

(***************************************************************************)
(* rag.py: query expansion.  Questions, keywords and expansion phrases are *)
(* sequences of characters, letter for letter as in the source.            *)
(***************************************************************************)
MaxWords == 2

UpperCase ==
    <<"A", "B", "C", "D", "E", "F", "G", "H", "I", "J", "K", "L", "M",
      "N", "O", "P", "Q", "R", "S", "T", "U", "V", "W", "X", "Y", "Z">>
LowerCase ==
    <<"a", "b", "c", "d", "e", "f", "g", "h", "i", "j", "k", "l", "m",
      "n", "o", "p", "q", "r", "s", "t", "u", "v", "w", "x", "y", "z">>

\* str.lower()
Lower(s) ==
    [i \in DOMAIN s |->
        IF \E k \in DOMAIN UpperCase : UpperCase[k] = s[i]
        THEN LowerCase[CHOOSE k \in DOMAIN UpperCase : UpperCase[k] = s[i]]
        ELSE s[i]]

\* keyword in q
IsSubstring(keyword, q) ==
    \E i \in 0..(Len(q) - Len(keyword)) : SubSeq(q, i + 1, i + Len(keyword)) = keyword

PhraseClient ==
    <<"c", "l", "i", "e", "n", "t", "s", SP, "p", "r", "o", "j", "e", "c",
    "t", "s", SP, "w", "o", "r", "k", SP, "e", "n", "g", "a", "g", "e", "m",
    "e", "n", "t", SP, "A", "M", "N", "E", "X", SP, "N", "M", "D", "P",
    "L">>
PhraseCustomer ==
    <<"c", "l", "i", "e", "n", "t", "s", SP, "p", "r", "o", "j", "e", "c",
    "t", "s", SP, "w", "o", "r", "k", SP, "e", "n", "g", "a", "g", "e", "m",
    "e", "n", "t">>
PhraseWork ==
    <<"c", "l", "i", "e", "n", "t", SP, "e", "n", "g", "a", "g", "e", "m",
    "e", "n", "t", SP, "p", "r", "o", "j", "e", "c", "t", "s", SP, "A", "M",
    "N", "E", "X", SP, "N", "M", "D", "P", "L", SP, "o", "u", "r", SP, "w",
    "o", "r", "k">>
PhraseProject ==
    <<"c", "l", "i", "e", "n", "t", SP, "e", "n", "g", "a", "g", "e", "m",
    "e", "n", "t", SP, "p", "r", "o", "j", "e", "c", "t", "s", SP, "o", "u",
    "r", SP, "w", "o", "r", "k">>
PhraseFounder ==
    <<"f", "o", "u", "n", "d", "e", "r", "s", SP, "d", "i", "r", "e", "c",
    "t", "o", "r", "s", SP, "m", "a", "n", "a", "g", "i", "n", "g", SP, "d",
    "i", "r", "e", "c", "t", "o", "r", SP, "t", "e", "a", "m">>
PhraseAbout ==
    <<"a", "b", "o", "u", "t", SP, "A", "K", "A", "R", SP, "v", "i", "s",
    "i", "o", "n", SP, "v", "a", "l", "u", "e", "s", SP, "f", "o", "u", "n",
    "d", "e", "r", "s", SP, "d", "i", "r", "e", "c", "t", "o", "r", "s">>
PhraseService ==
    <<"s", "e", "r", "v", "i", "c", "e", "s", SP, "s", "o", "l", "u", "t",
    "i", "o", "n", "s", SP, "f", "i", "e", "l", "d", SP, "r", "e", "s", "e",
    "a", "r", "c", "h", SP, "A", "I", SP, "u", "r", "b", "a", "n", SP, "t",
    "r", "a", "n", "s", "f", "o", "r", "m", "a", "t", "i", "o", "n">>
PhraseSolution ==
    <<"s", "e", "r", "v", "i", "c", "e", "s", SP, "s", "o", "l", "u", "t",
    "i", "o", "n", "s", SP, "c", "a", "p", "a", "b", "i", "l", "i", "t",
    "i", "e", "s">>
PhraseContact ==
    <<"c", "o", "n", "t", "a", "c", "t", SP, "u", "s", SP, "g", "e", "t",
    SP, "i", "n", SP, "t", "o", "u", "c", "h">>
PhrasePrice ==
    <<"p", "r", "i", "c", "i", "n", "g", SP, "c", "o", "s", "t", SP, "c",
    "o", "n", "s", "u", "l", "t", "a", "t", "i", "o", "n", SP, "c", "o",
    "n", "t", "a", "c", "t">>

Entry(k, e) == [keyword |-> k, expansion |-> e]

\* rag.py 101-118 with a "reach" trigger for the contact phrase
ExpansionsWithReach ==
    <<Entry(<<"c", "l", "i", "e", "n", "t">>, PhraseClient),
      Entry(<<"c", "l", "i", "e", "n", "t", "s">>, PhraseClient),
      Entry(<<"c", "u", "s", "t", "o", "m", "e", "r">>, PhraseCustomer),
      Entry(<<"w", "o", "r", "k">>, PhraseWork),
      Entry(<<"p", "r", "o", "j", "e", "c", "t">>, PhraseProject),
      Entry(<<"f", "o", "u", "n", "d", "e", "r">>, PhraseFounder),
      Entry(<<"f", "o", "u", "n", "d", "e", "r", "s">>, PhraseFounder),
      Entry(<<"t", "e", "a", "m">>, PhraseFounder),
      Entry(<<"a", "b", "o", "u", "t">>, PhraseAbout),
      Entry(<<"s", "e", "r", "v", "i", "c", "e">>, PhraseService),
      Entry(<<"s", "e", "r", "v", "i", "c", "e", "s">>, PhraseService),
      Entry(<<"s", "o", "l", "u", "t", "i", "o", "n">>, PhraseSolution),
      Entry(<<"s", "o", "l", "u", "t", "i", "o", "n", "s">>, PhraseSolution),
      Entry(<<"r", "e", "a", "c", "h">>, PhraseContact),
      Entry(<<"c", "o", "n", "t", "a", "c", "t">>, PhraseContact),
      Entry(<<"p", "r", "i", "c", "e">>, PhrasePrice),
      Entry(<<"c", "o", "s", "t">>, PhrasePrice)>>

\* rag.py 101-118: the expansions, in the order of the dict literal
Expansions ==
    <<Entry(<<"c", "l", "i", "e", "n", "t">>, PhraseClient),
      Entry(<<"c", "l", "i", "e", "n", "t", "s">>, PhraseClient),
      Entry(<<"c", "u", "s", "t", "o", "m", "e", "r">>, PhraseCustomer),
      Entry(<<"w", "o", "r", "k">>, PhraseWork),
      Entry(<<"p", "r", "o", "j", "e", "c", "t">>, PhraseProject),
      Entry(<<"f", "o", "u", "n", "d", "e", "r">>, PhraseFounder),
      Entry(<<"f", "o", "u", "n", "d", "e", "r", "s">>, PhraseFounder),
      Entry(<<"t", "e", "a", "m">>, PhraseFounder),
      Entry(<<"a", "b", "o", "u", "t">>, PhraseAbout),
      Entry(<<"s", "e", "r", "v", "i", "c", "e">>, PhraseService),
      Entry(<<"s", "e", "r", "v", "i", "c", "e", "s">>, PhraseService),
      Entry(<<"s", "o", "l", "u", "t", "i", "o", "n">>, PhraseSolution),
      Entry(<<"s", "o", "l", "u", "t", "i", "o", "n", "s">>, PhraseSolution),
      Entry(<<"c", "o", "n", "t", "a", "c", "t">>, PhraseContact),
      Entry(<<"p", "r", "i", "c", "e">>, PhrasePrice),
      Entry(<<"c", "o", "s", "t">>, PhrasePrice)>>

\* the entries whose keyword the lower-cased trimmed question contains
Matching(question) ==
    {k \in DOMAIN Expansions :
        IsSubstring(Expansions[k].keyword, Strip(Lower(question)))}

\* rag.py 95-122 where the last matching keyword wins
ExpandQueryLast(question) ==
    IF Matching(question) = {} THEN question
    ELSE question \o <<SP>> \o Expansions[SetMax(Matching(question))].expansion

\* rag.py 95-122: _expand_query
ExpandQuery(question) ==
    LET hits == Matching(question)
    IN  IF hits = {} THEN question
        ELSE question \o <<SP>>
                 \o Expansions[CHOOSE k \in hits : \A m \in hits : k <= m].expansion

\* the questions: up to MaxWords words, some capitalised, some holding a
\* keyword and some none, and the two questions about getting in touch
WordClients == <<"c", "l", "i", "e", "n", "t", "s">>
WordWork == <<"W", "o", "r", "k">>
WordTeam == <<"T", "E", "A", "M">>
WordReach == <<"r", "e", "a", "c", "h">>
WordPrice == <<"p", "r", "i", "c", "e">>
Vocabulary == {WordClients, WordWork, WordTeam, WordReach, WordPrice}

HowDoIReachYou ==
    <<"h", "o", "w", SP, "d", "o", SP, "I", SP, "r", "e", "a", "c", "h", SP,
    "y", "o", "u">>
HowDoIContactYou ==
    <<"h", "o", "w", SP, "d", "o", SP, "I", SP, "c", "o", "n", "t", "a",
    "c", "t", SP, "y", "o", "u">>

RECURSIVE Join(_)
Join(ws) ==
    IF ws = <<>> THEN <<>>
    ELSE IF Len(ws) = 1 THEN ws[1]
    ELSE ws[1] \o <<SP>> \o Join(Tail(ws))

Questions ==
    {Join(ws) : ws \in SeqsUpTo(Vocabulary, MaxWords)}
        \cup {HowDoIReachYou, HowDoIContactYou}

Queries == {"q1", "q2"}

VARIABLES
    text,        \* _chunk_text: the argument
    chunk_size,  \* _chunk_text: the argument
    overlap,     \* _chunk_text: the argument
    start,       \* _chunk_text: the cursor
    chunks,      \* _chunk_text: the list being built
    windows,     \* history: the [start, end) windows cut so far
    cpc,         \* _chunk_text: "idle", "loop" or "done"
    diskIndex,   \* storage/faiss.index: NoFile, Corrupt or the vectors
    diskMeta,    \* storage/metadata.pkl: NoFile, Corrupt or the entries
    faissIndex,  \* _faiss_index
    metaCache,   \* _metadata_cache
    builds,      \* history: the number of builds that reached embedding
    ing,         \* the ingest request: position and locals
    qry,         \* the chat requests: position and locals of each
    rag,         \* the helpers of rag.py on their own: arguments and locals
    limiter      \* main.py: _rate_store, the clock and the last request checked

chunkVars == <<text, chunk_size, overlap, start, chunks, windows, cpc>>
storeVars == <<diskIndex, diskMeta>>
cacheVars == <<faissIndex, metaCache>>
serverVars == <<diskIndex, diskMeta, faissIndex, metaCache, builds, ing, qry>>

vars == <<text, chunk_size, overlap, start, chunks, windows, cpc,
          diskIndex, diskMeta, faissIndex, metaCache, builds, ing, qry, rag, limiter>>

IngIdle ==
    [pc |-> "idle", sections |-> <<>>, all_metadata |-> <<>>, vectors |-> <<>>,
     batch_start |-> 0, total |-> 0, gen |-> 0, embedCalls |-> 0,
     status |-> 0, kind |-> "none", ret |-> -1, dropped |-> FALSE]

QryIdle ==
    [pc |-> "idle", ldIndex |-> None, ldMeta |-> None, index |-> None,
     metadata |-> None, retrieved |-> <<>>, embedCalls |-> 0, llmCalls |-> 0,
     status |-> 0, kind |-> "none", fresh |-> FALSE]

\* the process after startup: nothing persisted, so warmup (rag.py 127-134)
\* fails to load and leaves the cache unset
ServerInit ==
    /\ diskIndex = NoFile
    /\ diskMeta = NoFile
    /\ faissIndex = None
    /\ metaCache = None
    /\ builds = 0
    /\ ing = IngIdle
    /\ qry = [q \in Queries |-> QryIdle]

(***************************************************************************)
(* main.py: the rate limiter in front of both endpoints.  Times are whole  *)
(* seconds of time.time(), which does not run backwards here; the limit    *)
(* and the window are scaled down together.                                *)
(***************************************************************************)
RATE_LIMIT_REQUESTS == 2
RATE_LIMIT_WINDOW == 3
IPs == {"ip1", "ip2"}

\* main.py 29 and the state before the first request; `admitted` is
\* history: every timestamp the limiter let through, never pruned
LimiterIdle ==
    [rate_store |-> [ip \in IPs |-> <<>>], admitted |-> [ip \in IPs |-> <<>>],
     now |-> 0, ip |-> "none", status |-> 0]

\* main.py 34: the timestamps of the IP that lie inside the window
RecentCalls(store, ip, now) ==
    SelectSeq(store[ip], LAMBDA t : t > now - RATE_LIMIT_WINDOW)

RagIdle ==
    [mode |-> "idle", pc |-> "idle", retrieved |-> <<>>, answer |-> <<>>,
     confidence |-> "none", seen |-> {}, sources |-> <<>>, i |-> 0,
     question |-> <<>>, expanded |-> <<>>]

ChunkIdle ==
    /\ text = <<>>
    /\ chunk_size = CHUNK_SIZE
    /\ overlap = CHUNK_OVERLAP
    /\ start = 0
    /\ chunks = <<>>
    /\ windows = <<>>
    /\ cpc = "idle"

(***************************************************************************)
(* The chunker on its own: every text, every chunk_size > overlap >= 0.    *)
(***************************************************************************)
ChunkInit ==
    /\ text \in Texts
    /\ chunk_size \in 1..MaxChunk
    /\ overlap \in 0..(chunk_size - 1)
    /\ start = 0
    /\ chunks = <<>>
    /\ windows = <<>>
    /\ cpc = IF text = <<>> THEN "done" ELSE "loop"
    /\ ServerInit
    /\ rag = RagIdle /\ limiter = LimiterIdle

\* one iteration of the while loop, lines 69-88
ChunkStep ==
    /\ cpc = "loop"
    /\ start < Len(text)
    /\ LET end   == WindowEnd(text, start, chunk_size, overlap)
           chunk == Strip(Slice(text, start, end))
       IN  /\ chunks' = IF chunk # <<>> THEN Append(chunks, chunk) ELSE chunks
           /\ windows' = Append(windows, <<start, end>>)
           /\ start' = NextStart(start, end, chunk_size, overlap)
    /\ UNCHANGED <<text, chunk_size, overlap, cpc>>
    /\ UNCHANGED <<serverVars, rag, limiter>>

\* the loop exit and line 90
ChunkReturn ==
    /\ cpc = "loop"
    /\ start >= Len(text)
    /\ cpc' = "done"
    /\ UNCHANGED <<text, chunk_size, overlap, start, chunks, windows>>
    /\ UNCHANGED <<serverVars, rag, limiter>>

ChunkNext == ChunkStep \/ ChunkReturn

ChunkSpec == ChunkInit /\ [][ChunkNext]_vars /\ WF_vars(ChunkNext)

(***************************************************************************)
(* The helpers of rag.py on their own, each on every input of its bounded  *)
(* set.                                                                    *)
(***************************************************************************)
ConfidenceInit ==
    \E retrieved \in ScoredResults, answer \in Answers :
        rag = [RagIdle EXCEPT !.mode = "confidence", !.pc = "call",
                              !.retrieved = retrieved, !.answer = answer]

\* rag.py 178: the call of _confidence_level
Confidence ==
    /\ rag.mode = "confidence"
    /\ rag.pc = "call"
    /\ rag' = [rag EXCEPT !.pc = "done",
                          !.confidence = ConfidenceLevel(rag.retrieved, rag.answer)]
    /\ UNCHANGED <<serverVars, chunkVars, limiter>>

SourcesInit ==
    \E retrieved \in RankedResults :
        rag = [RagIdle EXCEPT !.mode = "sources", !.pc = "loop",
                              !.retrieved = retrieved, !.i = 1]

\* rag.py 76-89 without the break of lines 88-89
SourcesStepNoBreak ==
    /\ rag.mode = "sources"
    /\ rag.pc = "loop"
    /\ rag.i <= Len(rag.retrieved)
    /\ LET meta == rag.retrieved[rag.i]
       IN  IF meta.url \in rag.seen
           THEN rag' = [rag EXCEPT !.i = @ + 1]
           ELSE rag' = [rag EXCEPT !.seen = @ \cup {meta.url},
                                   !.sources = Append(@, SourceOf(meta)),
                                   !.i = @ + 1]
    /\ UNCHANGED <<serverVars, chunkVars, limiter>>

\* rag.py 76-89 where a hit with a URL already seen replaces its entry
SourcesStepLastWins ==
    /\ rag.mode = "sources"
    /\ rag.pc = "loop"
    /\ rag.i <= Len(rag.retrieved)
    /\ LET meta == rag.retrieved[rag.i]
           sources == Append(rag.sources, SourceOf(meta))
       IN  IF meta.url \in rag.seen
           THEN rag' = [rag EXCEPT !.sources =
                            [k \in DOMAIN @ |-> IF @[k].url = meta.url
                                                THEN SourceOf(meta) ELSE @[k]],
                                   !.i = @ + 1]
           ELSE rag' = [rag EXCEPT !.seen = @ \cup {meta.url},
                                   !.sources = sources,
                                   !.i = @ + 1,
                                   !.pc = IF Len(sources) >= MAX_SOURCES
                                          THEN "done" ELSE "loop"]
    /\ UNCHANGED <<serverVars, chunkVars, limiter>>

\* rag.py 76-89: one iteration of the loop of _build_sources
SourcesStep ==
    /\ rag.mode = "sources"
    /\ rag.pc = "loop"
    /\ rag.i <= Len(rag.retrieved)
    /\ LET meta == rag.retrieved[rag.i]
           sources == Append(rag.sources, SourceOf(meta))
       IN  IF meta.url \in rag.seen
           THEN rag' = [rag EXCEPT !.i = @ + 1]
           ELSE rag' = [rag EXCEPT !.seen = @ \cup {meta.url},
                                   !.sources = sources,
                                   !.i = @ + 1,
                                   !.pc = IF Len(sources) >= MAX_SOURCES
                                          THEN "done" ELSE "loop"]
    /\ UNCHANGED <<serverVars, chunkVars, limiter>>

\* rag.py 76, 90: the hits are exhausted and the list is returned
SourcesReturn ==
    /\ rag.mode = "sources"
    /\ rag.pc = "loop"
    /\ rag.i > Len(rag.retrieved)
    /\ rag' = [rag EXCEPT !.pc = "done"]
    /\ UNCHANGED <<serverVars, chunkVars, limiter>>

ExpandInit ==
    \E question \in Questions :
        rag = [RagIdle EXCEPT !.mode = "expand", !.pc = "call", !.question = question]

\* rag.py 143: the call of _expand_query
Expand ==
    /\ rag.mode = "expand"
    /\ rag.pc = "call"
    /\ rag' = [rag EXCEPT !.pc = "done", !.expanded = ExpandQuery(rag.question)]
    /\ UNCHANGED <<serverVars, chunkVars, limiter>>

RagInit ==
    /\ ServerInit /\ ChunkIdle /\ limiter = LimiterIdle
    /\ (ConfidenceInit \/ SourcesInit \/ ExpandInit)

RagNext == Confidence \/ SourcesStep \/ SourcesReturn \/ Expand

RagSpec == RagInit /\ [][RagNext]_vars

(***************************************************************************)
(* The rate limiter on its own: requests of two clients at any times.      *)
(***************************************************************************)
\* main.py 31-41 where a rejected request is recorded too
RateLimitRecordsRejected(ip, now) ==
    /\ now >= limiter.now
    /\ LET calls == RecentCalls(limiter.rate_store, ip, now)
       IN  limiter' =
               [limiter EXCEPT !.now = now, !.ip = ip,
                               !.status = IF Len(calls) >= RATE_LIMIT_REQUESTS
                                          THEN 429 ELSE 200,
                               !.rate_store[ip] = Append(calls, now),
                               !.admitted[ip] =
                                   IF Len(calls) >= RATE_LIMIT_REQUESTS
                                   THEN @ ELSE Append(@, now)]
    /\ UNCHANGED <<serverVars, chunkVars, rag>>

\* main.py 72-79 and 31-41: rate_limit_middleware and _check_rate_limit for
\* a request of `ip` at time `now`; 200 stands for handing on to call_next
RateLimit(ip, now) ==
    /\ now >= limiter.now
    /\ LET calls == RecentCalls(limiter.rate_store, ip, now)
       IN  limiter' =
               IF Len(calls) >= RATE_LIMIT_REQUESTS
               THEN [limiter EXCEPT !.now = now, !.ip = ip, !.status = 429]
               ELSE [limiter EXCEPT !.now = now, !.ip = ip, !.status = 200,
                                    !.rate_store[ip] = Append(calls, now),
                                    !.admitted[ip] = Append(@, now)]
    /\ UNCHANGED <<serverVars, chunkVars, rag>>

RateInit == ServerInit /\ ChunkIdle /\ rag = RagIdle /\ limiter = LimiterIdle

RateNext == \E ip \in IPs, now \in 0..MaxTime : RateLimit(ip, now)

RateSpec == RateInit /\ [][RateNext]_vars

(***************************************************************************)
(* Requests.  A request is "in flight" from its start to its response.     *)
(***************************************************************************)
InFlight(r) == r.pc \notin {"idle", "done"}
Quiet == ~InFlight(ing) /\ \A q \in Queries : ~InFlight(qry[q])

\* a response ends the request: its locals are gone, what it reported stays
IngEnd(r, code, why) ==
    [r EXCEPT !.pc = "done", !.status = code, !.kind = why,
              !.all_metadata = <<>>, !.vectors = <<>>, !.batch_start = 0]
QryEnd(r, code, why) ==
    [r EXCEPT !.pc = "done", !.status = code, !.kind = why,
              !.ldIndex = None, !.ldMeta = None, !.index = None, !.metadata = None,
              !.retrieved = <<>>, !.fresh = FALSE]

(***************************************************************************)
(* POST /api/ingest: ingest.py 24-57 and build_index, index.py 103-152.    *)
(***************************************************************************)
\* ingest.py 30-48: the PDF check, the parse and the no-sections check
IngestStart ==
    /\ ~InFlight(ing)
    /\ \E outcome \in {"parsed", "no pdf", "parse error"}, sections \in Corpora :
        /\ TotalChunks(sections) > 0 => builds < MaxBuilds
        /\ ing' = IF outcome = "no pdf" THEN IngEnd(IngIdle, 404, "no pdf")
                  ELSE IF outcome = "parse error" THEN IngEnd(IngIdle, 500, "parse")
                  ELSE IF sections = <<>> THEN IngEnd(IngIdle, 422, "input")
                  ELSE [IngIdle EXCEPT !.pc = "chunk", !.sections = sections]
    /\ qry' = [q \in Queries |-> [qry[q] EXCEPT !.fresh = FALSE]]
    /\ UNCHANGED <<storeVars, cacheVars, builds, chunkVars, rag, limiter>>

\* index.py 104-129 with the zero check left out
BuildChunkNoCheck ==
    /\ ing.pc = "chunk"
    /\ LET all_metadata == AllMetadata(ing.sections, builds + 1)
       IN  /\ ing' = [ing EXCEPT !.pc = "embed", !.all_metadata = all_metadata,
                                 !.total = Len(all_metadata), !.gen = builds + 1]
           /\ builds' = Min(builds + 1, MaxBuilds)
    /\ UNCHANGED <<storeVars, cacheVars, qry, chunkVars, rag, limiter>>

\* index.py 104-129: chunk every section; no chunk at all is a ValueError,
\* which ingest.py 52-54 turns into a 500
BuildChunk ==
    /\ ing.pc = "chunk"
    /\ LET all_metadata == AllMetadata(ing.sections, builds + 1)
           total        == Len(all_metadata)
       IN  IF total = 0
           THEN /\ ing' = IngEnd(ing, 500, "input")
                /\ UNCHANGED builds
           ELSE /\ ing' = [ing EXCEPT !.pc = "embed", !.all_metadata = all_metadata,
                                      !.total = total, !.gen = builds + 1]
                /\ builds' = builds + 1
    /\ UNCHANGED <<storeVars, cacheVars, qry, chunkVars, rag, limiter>>

\* index.py 133-136 where a failed batch drops the cached snapshot
BuildEmbedInvalidates ==
    /\ ing.pc = "embed"
    /\ ing.batch_start < ing.total
    /\ \E ok \in BOOLEAN :
        /\ ing' = IF ok
                  THEN [ing EXCEPT
                          !.vectors = @ \o EmbedTexts(Batch(AllChunks(ing.all_metadata),
                                                            ing.batch_start), ing.gen),
                          !.batch_start = @ + BATCH_SIZE,
                          !.embedCalls = @ + 1]
                  ELSE [IngEnd(ing, 500, "upstream") EXCEPT !.embedCalls = @ + 1]
        /\ faissIndex' = IF ok THEN faissIndex ELSE None
        /\ metaCache' = IF ok THEN metaCache ELSE None
    /\ UNCHANGED <<storeVars, builds, qry, chunkVars, rag, limiter>>

\* index.py 133-136: embed one batch; the provider may raise
BuildEmbed ==
    /\ ing.pc = "embed"
    /\ ing.batch_start < ing.total
    /\ \E ok \in BOOLEAN :
        ing' = IF ok
               THEN [ing EXCEPT
                       !.vectors = @ \o EmbedTexts(Batch(AllChunks(ing.all_metadata),
                                                         ing.batch_start), ing.gen),
                       !.batch_start = @ + BATCH_SIZE,
                       !.embedCalls = @ + 1]
               ELSE [IngEnd(ing, 500, "upstream") EXCEPT !.embedCalls = @ + 1]
    /\ UNCHANGED <<storeVars, cacheVars, builds, qry, chunkVars, rag, limiter>>

\* index.py 138-145: faiss.write_index; a failed write leaves the old file
\* or an unreadable one
BuildWriteIndex ==
    /\ ing.pc = "embed"
    /\ ing.batch_start >= ing.total
    /\ \/ /\ diskIndex' = FileOf(ing.vectors)
          /\ ing' = [ing EXCEPT !.pc = "write_meta"]
       \/ /\ diskIndex' \in {diskIndex, Corrupt}
          /\ ing' = IngEnd(ing, 500, "write")
    /\ UNCHANGED <<diskMeta, cacheVars, builds, qry, chunkVars, rag, limiter>>

\* index.py 146-147: open(..., "wb") and pickle.dump; a failed open leaves
\* the old file, a failed dump an unreadable one
BuildWriteMeta ==
    /\ ing.pc = "write_meta"
    /\ \/ /\ diskMeta' = FileOf(ing.all_metadata)
          /\ ing' = [ing EXCEPT !.pc = "invalidate"]
       \/ /\ diskMeta' \in {diskMeta, Corrupt}
          /\ ing' = IngEnd(ing, 500, "write")
    /\ UNCHANGED <<diskIndex, cacheVars, builds, qry, chunkVars, rag, limiter>>

\* line 149 left out: the cache is not invalidated
BuildInvalidateSkipped ==
    /\ ing.pc = "invalidate"
    /\ ing' = [ing EXCEPT !.pc = "return"]
    /\ UNCHANGED <<storeVars, cacheVars, builds, qry, chunkVars, rag, limiter>>

\* index.py 149 and invalidate_index_cache, 52-56
BuildInvalidate ==
    /\ ing.pc = "invalidate"
    /\ faissIndex' = None
    /\ metaCache' = None
    /\ ing' = [ing EXCEPT !.pc = "return", !.dropped = faissIndex.some /\ metaCache.some]
    /\ UNCHANGED <<storeVars, builds, qry, chunkVars, rag, limiter>>

\* index.py 151-152 and ingest.py 56-57: the success response
BuildReturn ==
    /\ ing.pc = "return"
    /\ ing' = [IngEnd(ing, 200, "success") EXCEPT !.ret = ing.total]
    /\ UNCHANGED <<storeVars, cacheVars, builds, qry, chunkVars, rag, limiter>>

(***************************************************************************)
(* POST /api/chat: chat.py 48-74, answer_question (rag.py 139-179) and     *)
(* similarity_search (index.py 167-180).                                   *)
(***************************************************************************)
\* history: the request starts after the last rebuild returned successfully
\* and while no other request is in flight
StartsSettled(q) ==
    /\ ing.pc = "done" /\ ing.status = 200
    /\ \A o \in Queries \ {q} : ~InFlight(qry[o])

\* chat.py 54-61 with the existence check left out
ChatStartNoCheck(q) ==
    /\ ~InFlight(qry[q])
    /\ qry' = [qry EXCEPT ![q] = [QryIdle EXCEPT !.pc = "check",
                                                 !.fresh = StartsSettled(q)]]
    /\ UNCHANGED <<storeVars, cacheVars, builds, ing, chunkVars, rag, limiter>>

\* chat.py 54-61: no index artifact is a 503
ChatStart(q) ==
    /\ ~InFlight(qry[q])
    /\ qry' = [qry EXCEPT ![q] =
                 IF diskIndex.st = "absent"
                 THEN QryEnd(QryIdle, 503, "not initialised")
                 ELSE [QryIdle EXCEPT !.pc = "check", !.fresh = StartsSettled(q)]]
    /\ UNCHANGED <<storeVars, cacheVars, builds, ing, chunkVars, rag, limiter>>

\* index.py 46: the cache test of get_cached_index
GetCachedCheck(q) ==
    /\ qry[q].pc = "check"
    /\ qry' = [qry EXCEPT ![q].pc =
                 IF ~faissIndex.some \/ ~metaCache.some THEN "read_index" ELSE "return"]
    /\ UNCHANGED <<storeVars, cacheVars, builds, ing, chunkVars, rag, limiter>>

\* index.py 159: faiss.read_index raises on a missing or unreadable file
ReadIndex(q) ==
    /\ qry[q].pc = "read_index"
    /\ qry' = [qry EXCEPT ![q] =
                 IF diskIndex.st # "ok" THEN QryEnd(@, 500, "load")
                 ELSE [@ EXCEPT !.pc = "read_meta", !.ldIndex = Some(diskIndex.data)]]
    /\ UNCHANGED <<storeVars, cacheVars, builds, ing, chunkVars, rag, limiter>>

\* index.py 160-162: open and pickle.load raise on a missing or unreadable
\* file; nothing else is checked
ReadMeta(q) ==
    /\ qry[q].pc = "read_meta"
    /\ qry' = [qry EXCEPT ![q] =
                 IF diskMeta.st # "ok" THEN QryEnd(@, 500, "load")
                 ELSE [@ EXCEPT !.pc = "store", !.ldMeta = Some(diskMeta.data)]]
    /\ UNCHANGED <<storeVars, cacheVars, builds, ing, chunkVars, rag, limiter>>

\* index.py 47: the loaded pair becomes the cached snapshot
StoreCache(q) ==
    /\ qry[q].pc = "store"
    /\ faissIndex' = qry[q].ldIndex
    /\ metaCache' = qry[q].ldMeta
    /\ qry' = [qry EXCEPT ![q].pc = "return", ![q].ldIndex = None, ![q].ldMeta = None]
    /\ UNCHANGED <<storeVars, builds, ing, chunkVars, rag, limiter>>

\* index.py 49 and 169: the caller gets what the globals hold now
ReturnCached(q) ==
    /\ qry[q].pc = "return"
    /\ qry' = [qry EXCEPT ![q].pc = "embed", ![q].index = faissIndex,
                          ![q].metadata = metaCache]
    /\ UNCHANGED <<storeVars, cacheVars, builds, ing, chunkVars, rag, limiter>>

\* index.py 171: embed the query; the provider may raise
EmbedQuery(q) ==
    /\ qry[q].pc = "embed"
    /\ \E ok \in BOOLEAN :
        qry' = [qry EXCEPT ![q] =
                  IF ok THEN [@ EXCEPT !.pc = "search", !.embedCalls = @ + 1]
                  ELSE [QryEnd(@, 500, "upstream") EXCEPT !.embedCalls = @ + 1]]
    /\ UNCHANGED <<storeVars, cacheVars, builds, ing, chunkVars, rag, limiter>>

\* index.search(q_vec, top_k): the min(top_k, ntotal) best positions in
\* descending score, which ones being up to the vectors
Rankings(ntotal) ==
    {r \in [1..Min(TOP_K, ntotal) -> 0..(ntotal - 1)] :
        \A i, j \in DOMAIN r : i # j => r[i] # r[j]}

\* index.py 174: the positions returned, -1 where the index has no more
SearchHits(r) == r \o [i \in 1..(TOP_K - Len(r)) |-> -1]

\* index.py 176-180: metadata[idx] raises for a position past the list
OutOfRange(hits, metadata) ==
    \E i \in DOMAIN hits : hits[i] # -1 /\ hits[i] >= Len(metadata)

\* index.py 176-180 without the filter: Python reads metadata[-1] as the
\* last entry
RetrievedUnfiltered(hits, index, metadata) ==
    [i \in DOMAIN hits |->
        IF hits[i] = -1
        THEN [meta |-> metadata[Len(metadata)], vec |-> index[Len(index)], rank |-> i]
        ELSE [meta |-> metadata[hits[i] + 1], vec |-> index[hits[i] + 1], rank |-> i]]

\* index.py 176-180: the hits that are not -1, each with metadata[idx], in
\* the order of the search; vec records the vector the index holds at that
\* position and rank the place of the hit in the result of index.search,
\* whose scores fall with the rank
Retrieved(hits, index, metadata) ==
    LET kept == {i \in DOMAIN hits : hits[i] # -1}
        Nth(k) == CHOOSE i \in kept : Cardinality({j \in kept : j < i}) = k - 1
    IN  [k \in 1..Cardinality(kept) |->
            [meta |-> metadata[hits[Nth(k)] + 1], vec |-> index[hits[Nth(k)] + 1],
             rank |-> Nth(k)]]

\* index.py 174-180: search the snapshot get_cached_index returned
Search(q) ==
    /\ qry[q].pc = "search"
    /\ IF ~qry[q].index.some \/ ~qry[q].metadata.some
       THEN qry' = [qry EXCEPT ![q] = QryEnd(@, 500, "error")]
       ELSE \E r \in Rankings(Len(qry[q].index.data)) :
              LET hits == SearchHits(r)
              IN  qry' = [qry EXCEPT ![q] =
                     IF OutOfRange(hits, qry[q].metadata.data)
                     THEN QryEnd(@, 500, "error")
                     ELSE [@ EXCEPT !.pc = "llm", !.index = None, !.metadata = None,
                                    !.retrieved = Retrieved(hits, qry[q].index.data,
                                                            qry[q].metadata.data)]]
    /\ UNCHANGED <<storeVars, cacheVars, builds, ing, chunkVars, rag, limiter>>

\* rag.py 163-179 where a failed completion becomes the not-found answer
CallLLMFallback(q) ==
    /\ qry[q].pc = "llm"
    /\ \E ok \in BOOLEAN :
        qry' = [qry EXCEPT ![q] =
                  IF ok THEN [QryEnd(@, 200, "success") EXCEPT !.llmCalls = @ + 1]
                  ELSE [QryEnd(@, 200, "upstream") EXCEPT !.llmCalls = @ + 1]]
    /\ UNCHANGED <<storeVars, cacheVars, builds, ing, chunkVars, rag, limiter>>

\* rag.py 163-179 and chat.py 63-74: the language-model call and the answer
CallLLM(q) ==
    /\ qry[q].pc = "llm"
    /\ \E ok \in BOOLEAN :
        qry' = [qry EXCEPT ![q] =
                  IF ok THEN [QryEnd(@, 200, "success") EXCEPT !.llmCalls = @ + 1]
                  ELSE [QryEnd(@, 500, "upstream") EXCEPT !.llmCalls = @ + 1]]
    /\ UNCHANGED <<storeVars, cacheVars, builds, ing, chunkVars, rag, limiter>>

(***************************************************************************)
(* The server.  The handlers are coroutines without an await (chat.py 49,  *)
(* ingest.py 25), so one event loop runs each to its response before the   *)
(* next starts: Spec.  ConcSpec lets the steps of requests interleave, as  *)
(* when the services are called from parallel requests; they take no lock. *)
(***************************************************************************)
Init == ServerInit /\ ChunkIdle /\ rag = RagIdle /\ limiter = LimiterIdle

Start == IngestStart \/ \E q \in Queries : ChatStart(q)

IngestStep ==
    \/ BuildChunk
    \/ BuildEmbed
    \/ BuildWriteIndex
    \/ BuildWriteMeta
    \/ BuildInvalidate
    \/ BuildReturn

ChatStep(q) ==
    \/ GetCachedCheck(q)
    \/ ReadIndex(q)
    \/ ReadMeta(q)
    \/ StoreCache(q)
    \/ ReturnCached(q)
    \/ EmbedQuery(q)
    \/ Search(q)
    \/ CallLLM(q)

Step == IngestStep \/ \E q \in Queries : ChatStep(q)

Next == (Quiet /\ Start) \/ Step

ConcNext == Start \/ Step

Spec == Init /\ [][Next]_vars

ConcSpec == Init /\ [][ConcNext]_vars

(***************************************************************************)
(* Chunker claims, checked under ChunkSpec.                                *)
(***************************************************************************)

\* C1: for every chunk_size > overlap >= 0 and every text, _chunk_text
\* terminates, the cursor strictly increasing on every loop iteration, and
\* every chunk returned is non-empty and no longer than chunk_size.
C1_ChunkTerminates ==
    /\ [][windows' # windows => start' > start]_vars
    /\ [](\A i \in DOMAIN chunks :
            chunks[i] # <<>> /\ Len(chunks[i]) <= chunk_size)
    /\ <>(cpc = "done")

\* a finished run that went on after a forced advance
C1_Witness ==
    /\ cpc = "done"
    /\ Len(chunks) >= 2
    /\ \E i \in DOMAIN windows :
          /\ i < Len(windows)
          /\ windows[i][2] - overlap <= windows[i][1]

\* C2: a text that is not blank and shorter than chunk_size yields exactly
\* one chunk.
C2_ShortTextOneChunk ==
    (cpc = "done" /\ ~IsBlank(text) /\ Len(text) < chunk_size)
        => Len(chunks) = 1

\* C3: the windows cover the text without gaps: each window after the first
\* starts at or before the end of the one before it, and every character
\* that is not whitespace lies in some window.
C3_WindowsCover ==
    cpc = "done" =>
        /\ \A i \in 2..Len(windows) : windows[i][1] <= windows[i - 1][2]
        /\ \A p \in 0..(Len(text) - 1) :
              text[p + 1] \notin Whitespace =>
                 \E i \in DOMAIN windows : windows[i][1] <= p /\ p < windows[i][2]

(***************************************************************************)
(* Index claims.                                                           *)
(***************************************************************************)
BuildOf(list, gen) == \A i \in DOMAIN list : list[i].build = gen

\* C4: after a successful build_index over sections that produce n chunks,
\* the persisted index holds exactly n vectors, the persisted metadata
\* exactly n entries, and build_index returned n.
C4_BuildThenLoad ==
    (ing.pc = "done" /\ ing.status = 200) =>
        /\ diskIndex.st = "ok"
        /\ diskMeta.st = "ok"
        /\ Len(diskIndex.data) = TotalChunks(ing.sections)
        /\ Len(diskMeta.data) = TotalChunks(ing.sections)
        /\ ing.ret = TotalChunks(ing.sections)

\* a second build that succeeded, over two sections and three chunks
C4_Witness ==
    /\ ing.pc = "done"
    /\ ing.status = 200
    /\ ing.gen = 2
    /\ ing.ret = 3
    /\ Len(diskIndex.data) = 3

\* C5: the index and the metadata list in the process cache always belong
\* to the same build, and every search hit pairs a vector with the metadata
\* of the chunk it embeds.
C5_CachePairConsistent ==
    /\ (faissIndex.some /\ metaCache.some) =>
          /\ Len(faissIndex.data) = Len(metaCache.data)
          /\ \A i \in DOMAIN faissIndex.data :
                Pairs(faissIndex.data[i], metaCache.data[i])
    /\ \A q \in Queries : \A i \in DOMAIN qry[q].retrieved :
          Pairs(qry[q].retrieved[i].vec, qry[q].retrieved[i].meta)

\* C6: a persisted index and metadata list of different lengths are
\* rejected when loaded: such a pair is never stored in the cache and no
\* search runs against it.
C6_MismatchRejectedAtLoad ==
    \A q \in Queries :
        /\ qry[q].pc = "store" =>
              Len(qry[q].ldIndex.data) = Len(qry[q].ldMeta.data)
        /\ (qry[q].pc = "search" /\ qry[q].index.some /\ qry[q].metadata.some) =>
              Len(qry[q].index.data) = Len(qry[q].metadata.data)

\* C7: when build_index returns successfully both artifacts hold the new
\* build and the cache is empty, and a query after a successful rebuild is
\* answered from that build.
C7_RebuildInvalidates ==
    /\ [][(ing.pc = "return" /\ ing'.pc = "done") =>
            /\ diskIndex'.st = "ok" /\ BuildOf(diskIndex'.data, ing.gen)
            /\ diskMeta'.st = "ok" /\ BuildOf(diskMeta'.data, ing.gen)
            /\ ~faissIndex'.some
            /\ ~metaCache'.some]_vars
    /\ [](\A q \in Queries :
            (qry[q].pc = "llm" /\ ing.pc = "done" /\ ing.status = 200) =>
                \A i \in DOMAIN qry[q].retrieved :
                    /\ qry[q].retrieved[i].vec.build = ing.gen
                    /\ qry[q].retrieved[i].meta.build = ing.gen)

\* a query answered from the second build, whose invalidation dropped a
\* cached snapshot
C7_Witness ==
    /\ ing.pc = "done" /\ ing.status = 200 /\ ing.gen = 2 /\ ing.dropped
    /\ \E q \in Queries :
          /\ qry[q].pc = "llm"
          /\ qry[q].retrieved # <<>>
          /\ BuildOf(diskMeta.data, 2)

ZeroChunkRebuild(r) ==
    /\ r.pc # "idle"
    /\ r.kind \notin {"no pdf", "parse"}
    /\ TotalChunks(r.sections) = 0

\* C9: a rebuild whose input produces no chunk fails with an input error
\* before any embedding call, writes neither artifact and leaves the cached
\* snapshot and the persisted artifacts as they were.
C9_EmptyRebuildRejected ==
    /\ [][ZeroChunkRebuild(ing') =>
            /\ diskIndex' = diskIndex
            /\ diskMeta' = diskMeta
            /\ ing' # ing => (faissIndex' = faissIndex /\ metaCache' = metaCache)
            /\ ing'.embedCalls = 0]_vars
    /\ [](ZeroChunkRebuild(ing) =>
            \/ ing.pc = "chunk"
            \/ ing.pc = "done" /\ ing.kind = "input" /\ ing.status \in {422, 500})

\* a rebuild over a header without a body, rejected while an earlier build
\* is on disk and cached
C9_Witness ==
    /\ ing.pc = "done" /\ ing.kind = "input" /\ ing.status = 500
    /\ ing.sections # <<>>
    /\ diskIndex.st = "ok" /\ diskMeta.st = "ok"
    /\ faissIndex.some /\ metaCache.some

\* C10: a chat query issued while no index artifact is persisted is
\* answered 503 without an embedding or language-model call, and a failure
\* of the embedding or language-model call is answered 500.
C10_NotInitialised ==
    /\ [][\A q \in Queries :
            (qry'[q] # qry[q] /\ ~InFlight(qry[q]) /\ diskIndex.st = "absent") =>
                /\ qry'[q].pc = "done"
                /\ qry'[q].status = 503]_vars
    /\ [](\A q \in Queries :
            /\ qry[q].status = 503 =>
                  /\ qry[q].kind = "not initialised"
                  /\ qry[q].embedCalls = 0
                  /\ qry[q].llmCalls = 0
            /\ qry[q].kind = "upstream" => qry[q].status = 500)

\* a query answered 503 before any build
C10_Witness ==
    /\ diskIndex.st = "absent"
    /\ \E q \in Queries : qry[q].pc = "done" /\ qry[q].status = 503

(***************************************************************************)
(* Claims on the helpers of rag.py, checked under RagSpec.                 *)
(***************************************************************************)
Scored == rag.mode = "confidence" /\ rag.pc = "done"

\* C12: _confidence_level returns "low" whenever the retrieval result is
\* empty, whatever the answer, and whenever the answer contains the
\* not-found sentinel, whatever the retrieval result and its scores.
C12_LowOnEmptyOrNotFound ==
    (Scored /\ (rag.retrieved = <<>> \/ HasNotFound(rag.answer)))
        => rag.confidence = "low"

\* the sentinel in the answer to two hits whose top score is above the
\* high threshold
C12_Witness ==
    /\ Scored
    /\ HasNotFound(rag.answer)
    /\ Len(rag.retrieved) >= 2
    /\ rag.retrieved[1].score >= HIGH_THRESHOLD
    /\ rag.confidence = "low"

Tier(level) == CASE level = "low" -> 0 [] level = "medium" -> 1 [] level = "high" -> 2

\* the retrieval result with another top score
WithTopScore(retrieved, s) == [retrieved EXCEPT ![1].score = s]

\* C13: "high" is returned only for a top score >= the high threshold with
\* at least two hits, never for a single hit, and for a fixed hit count and
\* an answer without the sentinel the tier does not fall as the top score
\* rises.
C13_HighNeedsTwoHits ==
    Scored =>
        /\ rag.confidence = "high" =>
              /\ Len(rag.retrieved) >= 2
              /\ rag.retrieved[1].score >= HIGH_THRESHOLD
        /\ Len(rag.retrieved) = 1 => rag.confidence # "high"
        /\ (rag.retrieved # <<>> /\ ~HasNotFound(rag.answer)) =>
              \A s \in Scores :
                  s >= rag.retrieved[1].score =>
                      Tier(ConfidenceLevel(WithTopScore(rag.retrieved, s), rag.answer))
                          >= Tier(rag.confidence)

\* a single hit above the high threshold, scored "medium"
C13_Witness ==
    /\ Scored
    /\ Len(rag.retrieved) = 1
    /\ rag.retrieved[1].score >= HIGH_THRESHOLD
    /\ ~HasNotFound(rag.answer)
    /\ rag.confidence = "medium"

Listed == rag.mode = "sources" /\ rag.pc = "done"

\* C14: for every retrieval result, also one where many hits share a URL,
\* _build_sources returns at most MAX_SOURCES entries and no two of them
\* have the same URL.
C14_SourcesCappedDistinct ==
    Listed =>
        /\ Len(rag.sources) <= MAX_SOURCES
        /\ \A j, k \in DOMAIN rag.sources :
               rag.sources[j].url = rag.sources[k].url => j = k

\* the cap is reached by hits of which two share a URL
C14_Witness ==
    /\ Listed
    /\ Len(rag.sources) = MAX_SOURCES
    /\ \E j, k \in DOMAIN rag.retrieved :
           j < k /\ rag.retrieved[j].url = rag.retrieved[k].url

\* the ranks whose URL no higher-ranked hit has
FirstOfUrl(retrieved) ==
    {j \in DOMAIN retrieved : \A k \in 1..(j - 1) : retrieved[k].url # retrieved[j].url}

\* C19: the list returned by _build_sources is the first MAX_SOURCES distinct
\* URLs of the retrieval result in rank order, each with the section title
\* and the (snippet of the) text of its highest-ranked hit; a later hit with
\* a URL already emitted neither replaces nor reorders an entry.
C19_SourcesFirstDistinct ==
    Listed =>
        LET first == FirstOfUrl(rag.retrieved)
        IN  /\ Len(rag.sources) = Min(MAX_SOURCES, Cardinality(first))
            /\ \A k \in DOMAIN rag.sources :
                   \E j \in first :
                       /\ Cardinality({m \in first : m < j}) = k - 1
                       /\ rag.sources[k] = SourceOf(rag.retrieved[j])

\* a URL returns on a lower rank with another title and a longer text
C19_Witness ==
    /\ Listed
    /\ \E j, k \in DOMAIN rag.retrieved :
           /\ j < k
           /\ rag.retrieved[j].url = rag.retrieved[k].url
           /\ rag.retrieved[j].section_title # rag.retrieved[k].section_title
           /\ \E m \in DOMAIN rag.sources :
                  /\ rag.sources[m].url = rag.retrieved[j].url
                  /\ rag.sources[m].section_title = rag.retrieved[j].section_title
    /\ Len(rag.sources) >= 2

Expanded == rag.mode = "expand" /\ rag.pc = "done"

\* C17: _expand_query applies at most one expansion: with no keyword in the
\* lower-cased trimmed question it returns the question unchanged, and
\* otherwise the question as typed, one space, and the expansion of the
\* first keyword in declaration order that the question contains, even when
\* several keywords match.
C17_FirstKeywordOnly ==
    Expanded =>
        LET q == Strip(Lower(rag.question))
            Has(k) == IsSubstring(Expansions[k].keyword, q)
        IN  /\ (\A k \in DOMAIN Expansions : ~Has(k)) => rag.expanded = rag.question
            /\ \A k \in DOMAIN Expansions :
                   (Has(k) /\ \A m \in 1..(k - 1) : ~Has(m)) =>
                       rag.expanded = rag.question \o <<SP>> \o Expansions[k].expansion

\* "TEAM Work": "team" comes first in the question and "work" first in the
\* mapping, with another phrase
C17_Witness ==
    /\ Expanded
    /\ rag.question = Join(<<WordTeam, WordWork>>)
    /\ rag.expanded = rag.question \o <<SP>> \o PhraseWork

ErrorKinds == {"input", "not initialised", "upstream", "load"}

\* C11: the four error kinds reach the caller as conditions distinct from
\* one another: two chat requests that failed for different kinds did not
\* get the same response status.
C11_ErrorKindsDistinct ==
    \A a, b \in Queries :
        ( /\ qry[a].pc = "done" /\ qry[b].pc = "done"
          /\ qry[a].kind \in ErrorKinds /\ qry[b].kind \in ErrorKinds
          /\ qry[a].kind # qry[b].kind )
            => qry[a].status # qry[b].status

\* C15: similarity_search returns at most top_k pairs, none for a hit at
\* position -1, so min(top_k, size of the index) pairs, in the order the
\* index search returned them.
C15_SearchResult ==
    [][\A q \in Queries :
          (qry[q].pc = "search" /\ qry'[q].pc = "llm") =>
              LET index == qry[q].index.data
                  metadata == qry[q].metadata.data
                  got == qry'[q].retrieved
              IN  /\ Len(got) <= TOP_K
                  /\ Len(got) = Min(TOP_K, Len(index))
                  /\ \A i \in DOMAIN got :
                         /\ got[i].rank = i
                         /\ \E p \in DOMAIN index :
                                got[i].vec = index[p] /\ got[i].meta = metadata[p]]_vars

\* an index of one vector searched with top_k = 2: one pair comes back
C15_Witness ==
    \E q \in Queries :
        /\ qry[q].pc = "llm"
        /\ Len(qry[q].retrieved) = 1
        /\ Len(qry[q].retrieved) < TOP_K

C20_OneCallEachNoFallback ==
    \A q \in Queries :
        /\ qry[q].embedCalls <= 1
        /\ qry[q].llmCalls <= 1
        /\ qry[q].llmCalls = 1 => qry[q].embedCalls = 1
        /\ qry[q].pc = "done" =>
              /\ qry[q].kind = "load" =>
                    qry[q].embedCalls = 0 /\ qry[q].llmCalls = 0
              /\ qry[q].kind \in {"load", "upstream"} => qry[q].status = 500
              /\ qry[q].status = 200 =>
                    /\ qry[q].kind = "success"
                    /\ qry[q].embedCalls = 1 /\ qry[q].llmCalls = 1

\* a query whose embedding call failed, and one whose completion failed
C20_Witness ==
    \E a, b \in Queries :
        /\ qry[a].pc = "done" /\ qry[a].kind = "upstream"
        /\ qry[a].embedCalls = 1 /\ qry[a].llmCalls = 0 /\ qry[a].status = 500
        /\ qry[b].pc = "done" /\ qry[b].kind = "upstream"
        /\ qry[b].llmCalls = 1 /\ qry[b].status = 500

\* a step of a rebuild up to and including a failed embedding call
EmbedFailureStep ==
    /\ ing' # ing
    /\ \/ ing'.pc \in {"chunk", "embed"}
       \/ ing'.pc = "done" /\ ing'.kind = "upstream"

\* C21: a rebuild that fails during embedding writes neither artifact and
\* does not invalidate the cache: no step of it changes the persisted index,
\* the persisted metadata or the cached snapshot, and a query served after
\* it retrieves from generations before the failed one.
C21_EmbedFailureFrame ==
    /\ [][EmbedFailureStep =>
            UNCHANGED <<diskIndex, diskMeta, faissIndex, metaCache>>]_vars
    /\ [](\A q \in Queries :
            (ing.pc = "done" /\ ing.kind = "upstream" /\ qry[q].pc = "llm") =>
                \A i \in DOMAIN qry[q].retrieved :
                    /\ qry[q].retrieved[i].vec.build < ing.gen
                    /\ qry[q].retrieved[i].meta.build < ing.gen)

\* the second rebuild failed in an embedding call and a query retrieves the
\* chunks of the first from the snapshot cached before it
C21_Witness ==
    /\ ing.pc = "done" /\ ing.kind = "upstream" /\ ing.gen = 2
    /\ faissIndex.some /\ metaCache.some
    /\ \E q \in Queries :
           /\ qry[q].pc = "llm"
           /\ qry[q].retrieved # <<>>
           /\ \A i \in DOMAIN qry[q].retrieved : qry[q].retrieved[i].vec.build = 1

(***************************************************************************)
(* Claims on the rate limiter, checked under RateSpec.                     *)
(***************************************************************************)
\* the admitted requests of ip with a timestamp in the window (t - W, t]
AdmittedIn(ip, t) ==
    {i \in DOMAIN limiter.admitted[ip] :
        /\ limiter.admitted[ip][i] > t - RATE_LIMIT_WINDOW
        /\ limiter.admitted[ip][i] <= t}

\* C22: for every client and every sequence of arrival times the limiter
\* admits at most RATE_LIMIT_REQUESTS requests with timestamps in any window
\* of RATE_LIMIT_WINDOW seconds (open at its old end, as line 34 counts it);
\* a request answered 429 is not recorded, and a request changes the list of
\* its own client only and is decided by that client's admitted requests
\* alone.
C22_RateLimit ==
    /\ [](\A ip \in IPs, t \in 0..MaxTime :
            Cardinality(AdmittedIn(ip, t)) <= RATE_LIMIT_REQUESTS)
    /\ [][ /\ limiter'.status = 429 =>
                /\ limiter'.rate_store = limiter.rate_store
                /\ limiter'.admitted = limiter.admitted
           /\ \A o \in IPs \ {limiter'.ip} :
                /\ limiter'.rate_store[o] = limiter.rate_store[o]
                /\ limiter'.admitted[o] = limiter.admitted[o]
           /\ limiter'.status = 429 <=>
                Cardinality({i \in DOMAIN limiter.admitted[limiter'.ip] :
                                limiter.admitted[limiter'.ip][i]
                                    > limiter'.now - RATE_LIMIT_WINDOW})
                    >= RATE_LIMIT_REQUESTS ]_limiter

\* a client whose window has moved on once is refused inside its next full
\* window, while the other client has requests of its own
C22_Witness ==
    /\ limiter.status = 429
    /\ limiter.ip = "ip1"
    /\ Len(limiter.admitted["ip1"]) > RATE_LIMIT_REQUESTS
    /\ limiter.admitted["ip2"] # <<>>

====
